---- MODULE Spec2Model ----
(***************************************************************************)
(* A model of the Hanabi game-state engine of src/hanabi.py (class Board   *)
(* and the Variant classes), of the driver loop of src/main.py (run) and   *)
(* of four agents of src/bot.py (DumbBot, BasicCheatingBot, CheatingBot,   *)
(* ClueBot).                                                               *)
(*                                                                         *)
(* The Board object is the record-valued variable `board`, one field per   *)
(* attribute of the object.  Python lists are sequences (slot i of a       *)
(* Python list is position i + 1), the per-player lists _hands and         *)
(* _card_info are functions on 0 .. num_players - 1, and the dict          *)
(* played_cards is a function whose DOMAIN is the dict's key set.          *)
(* Every handler is an operator from a board (and its argument) to a       *)
(* result [b |-> the board the call leaves behind, exc |-> the exception   *)
(* it raised, or "None"], so that a mutation made before a raise is kept.  *)
(***************************************************************************)
EXTENDS Integers, Sequences, FiniteSets, TLC

VARIABLES board, agent, lastTurn, raised

vars == <<board, agent, lastTurn, raised>>

---------------------------------------------------------------------------
(* Bounds of the exploration *)

\* The free agent (any action from Turns each turn) is explored for this many
\* successful turns from construction.
MaxTurns == 2

\* Board(num_players, ...): the player counts explored.
PlayerCounts == {2, 3}

\* Board(..., seed, ...), reset(seed, ...): the seeds explored.
Seeds == {0, 1}

\* Board(..., starting_player, ...), reset(..., starting_player): the values
\* explored.
StartingPlayers == {0, 1}

\* relative_player(idx): the offsets explored are -MaxOffset .. MaxOffset.
MaxOffset == 4

---------------------------------------------------------------------------
(* Python values *)

\* Clue.color = None (a string that is no color; a truthy test `if clue.color`
\* is modelled as clue.color # NoColor).
NoColor == "None"

\* Clue.number = None.  `if clue.number` is false and card.number == clue.number
\* is false for every card, for None as for 0.
NoNumber == 0

\* _draw_card(index=None).
NoIndex == -1

\* turns_left = None is <<>>, turns_left = n is <<n>>.
NoneInt == <<>>
Some(n) == <<n>>
IsNone(x) == x = <<>>
Val(x) == x[1]

Min(a, b) == IF a < b THEN a ELSE b
Max(a, b) == IF a > b THEN a ELSE b

\* list[i] is defined for -len <= i < len; a negative i counts from the end.
InRange(list, i) == -Len(list) <= i /\ i < Len(list)
Pos(list, i) == IF i < 0 THEN i + Len(list) + 1 ELSE i + 1
PyAt(list, i) == list[Pos(list, i)]
\* list.pop(i), the list it leaves.
PyPop(list, i) ==
    [k \in 1 .. Len(list) - 1 |-> IF k < Pos(list, i) THEN list[k] ELSE list[k + 1]]
\* list.insert(0, x).
PyInsert0(list, x) == <<x>> \o list
\* list.count(x).
PyCount(list, x) == Cardinality({k \in 1 .. Len(list) : list[k] = x})


---------------------------------------------------------------------------
(* Turns, cards and card knowledge *)

Clue(target, color, number) ==
    [kind |-> "Clue", target |-> target, color |-> color, number |-> number, index |-> 0]
Discard(index) ==
    [kind |-> "Discard", target |-> 0, color |-> NoColor, number |-> NoNumber, index |-> index]
Play(index) ==
    [kind |-> "Play", target |-> 0, color |-> NoColor, number |-> NoNumber, index |-> index]
\* An object that is no Clue, Play or Discard.
OtherTurn ==
    [kind |-> "Other", target |-> 0, color |-> NoColor, number |-> NoNumber, index |-> 0]
\* The calls Board(num_players, seed, starting_player, variant) and
\* reset(seed, starting_player), as the last call made on the board: number
\* holds the seed and target the starting_player argument.
BoardCall(seed, starting_player) ==
    [kind |-> "Board", target |-> starting_player, color |-> NoColor,
     number |-> seed, index |-> 0]
ResetCall(seed, starting_player) ==
    [kind |-> "Reset", target |-> starting_player, color |-> NoColor,
     number |-> seed, index |-> 0]
\* No evaluate call was made.
NoTurn ==
    [kind |-> "NoTurn", target |-> 0, color |-> NoColor, number |-> NoNumber, index |-> 0]

Card(color, number) == [color |-> color, number |-> number]

CardInfo(color, number) == [color |-> color, number |-> number, clued |-> FALSE]

---------------------------------------------------------------------------
(* The variants *)

Variants == {"Default", "Rainbow", "Duck"}

MAX_CLUES == 8

CARD_COLORS(variant) ==
    IF variant = "Rainbow" THEN <<"r", "y", "g", "b", "p", "m">>
    ELSE <<"r", "y", "g", "b", "p">>

CARD_NUMBERS == <<1, 1, 1, 2, 2, 3, 3, 4, 4, 5>>

SetOf(list) == {list[k] : k \in 1 .. Len(list)}

VariantDefault_clue_touched(card, clue) ==
    card.color = clue.color \/ card.number = clue.number

\* The value clue_touched returns when it does not raise (see clue_touched_raises).
VariantRainbow_clue_touched(card, clue) ==
    card.color = clue.color \/ card.color = "m" \/ card.number = clue.number

\* clue_touched raises InvalidMove (VariantRainbow, clue color "m").
clue_touched_raises(variant, clue) == variant = "Rainbow" /\ clue.color = "m"

clue_touched(variant, card, clue) ==
    IF variant = "Rainbow" THEN VariantRainbow_clue_touched(card, clue)
    ELSE VariantDefault_clue_touched(card, clue)

\* Mutant: the two branches of the color update are exchanged (`if not touched`).
VariantDefault_update_info_Swapped(card_info, clue, touched) ==
    LET i1 == IF touched THEN [card_info EXCEPT !.clued = TRUE] ELSE card_info
        i2 == IF clue.color # NoColor
              THEN IF ~touched
                   THEN [i1 EXCEPT !.color = @ \cap {clue.color}]
                   ELSE [i1 EXCEPT !.color = @ \ {clue.color}]
              ELSE i1
    IN  IF clue.number # NoNumber
        THEN IF touched
             THEN [i2 EXCEPT !.number = @ \cap {clue.number}]
             ELSE [i2 EXCEPT !.number = @ \ {clue.number}]
        ELSE i2

\* Mutant: the flag is set whether or not the clue touched the card.
VariantDefault_update_info_FlagAlways(card_info, clue, touched) ==
    LET i1 == [card_info EXCEPT !.clued = TRUE]
        i2 == IF clue.color # NoColor
              THEN IF touched
                   THEN [i1 EXCEPT !.color = @ \cap {clue.color}]
                   ELSE [i1 EXCEPT !.color = @ \ {clue.color}]
              ELSE i1
    IN  IF clue.number # NoNumber
        THEN IF touched
             THEN [i2 EXCEPT !.number = @ \cap {clue.number}]
             ELSE [i2 EXCEPT !.number = @ \ {clue.number}]
        ELSE i2

VariantDefault_update_info(card_info, clue, touched) ==
    LET i1 == IF touched THEN [card_info EXCEPT !.clued = TRUE] ELSE card_info
        i2 == IF clue.color # NoColor
              THEN IF touched
                   THEN [i1 EXCEPT !.color =
                            @ \ {c \in SetOf(CARD_COLORS("Default")) : c # clue.color}]
                   ELSE [i1 EXCEPT !.color = @ \ {clue.color}]
              ELSE i1
    IN  IF clue.number # NoNumber
        THEN IF touched
             THEN [i2 EXCEPT !.number = @ \ {n \in SetOf(CARD_NUMBERS) : n # clue.number}]
             ELSE [i2 EXCEPT !.number = @ \ {clue.number}]
        ELSE i2

VariantRainbow_update_info(card_info, clue, touched) ==
    LET i1 == IF touched THEN [card_info EXCEPT !.clued = TRUE] ELSE card_info
        i2 == IF clue.color # NoColor
              THEN IF touched
                   THEN [i1 EXCEPT !.color =
                            @ \ {c \in SetOf(CARD_COLORS("Rainbow")) :
                                     ~(c = clue.color \/ c = "m")}]
                   ELSE [i1 EXCEPT !.color = @ \ {clue.color}]
              ELSE i1
    IN  IF clue.number # NoNumber
        THEN IF touched
             THEN [i2 EXCEPT !.number = @ \ {n \in SetOf(CARD_NUMBERS) : n # clue.number}]
             ELSE [i2 EXCEPT !.number = @ \ {clue.number}]
        ELSE i2

\* Mutant: the flag is assigned the touch result (`card_info.clued = touched`).
VariantDuck_update_info_Assign(card_info, clue, touched) ==
    [card_info EXCEPT !.clued = touched]

\* Mutant: the override is missing, the Standard update is inherited.
VariantDuck_update_info_Narrow(card_info, clue, touched) ==
    VariantDefault_update_info(card_info, clue, touched)

VariantDuck_update_info(card_info, clue, touched) ==
    IF touched THEN [card_info EXCEPT !.clued = TRUE] ELSE card_info

update_info(variant, card_info, clue, touched) ==
    CASE variant = "Rainbow" -> VariantRainbow_update_info(card_info, clue, touched)
      [] variant = "Duck" -> VariantDuck_update_info(card_info, clue, touched)
      [] OTHER -> VariantDefault_update_info(card_info, clue, touched)

---------------------------------------------------------------------------
(* Board: properties and helpers *)

initial_cards_per_player(b) == IF b.num_players < 3 THEN 5 ELSE 4

AllPlayed(b) == \A c \in DOMAIN b.played_cards : b.played_cards[c] = 5

\* Mutant: the countdown does not end the game.
game_over_NoCountdown(b) == b.strikes = 3 \/ AllPlayed(b)

game_over(b) == b.strikes = 3 \/ AllPlayed(b) \/ b.turns_left = Some(0)

RECURSIVE SumOver(_, _)
SumOver(f, S) ==
    IF S = {} THEN 0
    ELSE LET x == CHOOSE y \in S : TRUE IN f[x] + SumOver(f, S \ {x})

score(b) == SumOver(b.played_cards, DOMAIN b.played_cards)

\* Mutant: the turn index is left out (`starting_player % num_players`).
current_player_Stuck(b) == b.starting_player % b.num_players

current_player(b) == (b.turn_index + b.starting_player) % b.num_players

\* Mutant: the remainder of a negative sum is negative, as where % truncates.
relative_player_Truncated(b, idx) ==
    IF current_player(b) + idx < 0
    THEN 0 - ((0 - (current_player(b) + idx)) % b.num_players)
    ELSE (current_player(b) + idx) % b.num_players

\* Python's % with a positive divisor is never negative, as TLA+'s.
relative_player(b, idx) == (current_player(b) + idx) % b.num_players

_current_hand(b) == b.hands[current_player(b)]

current_info(b) == b.card_info[current_player(b)]

current_hand_size(b) == Len(_current_hand(b))

\* played_cards[card.color] raises KeyError.
NoStack(b, card) == card.color \notin DOMAIN b.played_cards

is_playable(b, card) == b.played_cards[card.color] = card.number - 1

is_discardable(b, card) == b.played_cards[card.color] >= card.number

---------------------------------------------------------------------------
(* Board: drawing, construction and reset *)

\* Mutant: the countdown starts at num_players.
_draw_card_OffByOne(b, index) ==
    IF b.deck # <<>>
    THEN LET new_card == b.deck[Len(b.deck)]
             player == IF index # NoIndex THEN index ELSE current_player(b)
         IN  [b EXCEPT !.deck = SubSeq(b.deck, 1, Len(b.deck) - 1),
                       !.hands[player] = PyInsert0(@, new_card),
                       !.card_info[player] =
                           PyInsert0(@, CardInfo(SetOf(CARD_COLORS(b.variant)),
                                                 SetOf(CARD_NUMBERS)))]
    ELSE IF IsNone(b.turns_left)
         THEN [b EXCEPT !.turns_left = Some(b.num_players)]
         ELSE b

\* Mutant: the card drawn is put at the end of the hand (`append(new_card)`).
_draw_card_Append(b, index) ==
    IF b.deck # <<>>
    THEN LET new_card == b.deck[Len(b.deck)]
             player == IF index # NoIndex THEN index ELSE current_player(b)
         IN  [b EXCEPT !.deck = SubSeq(b.deck, 1, Len(b.deck) - 1),
                       !.hands[player] = Append(@, new_card),
                       !.card_info[player] =
                           PyInsert0(@, CardInfo(SetOf(CARD_COLORS(b.variant)),
                                                 SetOf(CARD_NUMBERS)))]
    ELSE IF IsNone(b.turns_left)
         THEN [b EXCEPT !.turns_left = Some(b.num_players + 1)]
         ELSE b

_draw_card(b, index) ==
    IF b.deck # <<>>
    THEN LET new_card == b.deck[Len(b.deck)]
             player == IF index # NoIndex THEN index ELSE current_player(b)
         IN  [b EXCEPT !.deck = SubSeq(b.deck, 1, Len(b.deck) - 1),
                       !.hands[player] = PyInsert0(@, new_card),
                       !.card_info[player] =
                           PyInsert0(@, CardInfo(SetOf(CARD_COLORS(b.variant)),
                                                 SetOf(CARD_NUMBERS)))]
    ELSE IF IsNone(b.turns_left)
         THEN [b EXCEPT !.turns_left = Some(b.num_players + 1)]
         ELSE b

\* [Card(c, n) for c in CARD_COLORS for n in CARD_NUMBERS]
NewDeck(variant) ==
    LET colors == CARD_COLORS(variant)
        n == Len(CARD_NUMBERS)
    IN  [k \in 1 .. Len(colors) * n |->
            Card(colors[((k - 1) \div n) + 1], CARD_NUMBERS[((k - 1) % n) + 1])]

\* The generator self._rng is the number that stands for its internal state.
\* random.Random(0): the state after seeding with 0.
Random0 == 0

\* Mutant: seeding leaves the generator as it was.
rng_seed_Keep(rng, seed) == rng

\* self._rng.seed(seed), seed not None: the state depends on the seed alone.
rng_seed(rng, seed) == seed

\* The state a shuffle leaves the generator in: a state that no seed gives.
rng_shuffled(rng) == rng + Cardinality(Seeds)

\* shuffle(deck): a permutation of the deck that the generator's state
\* determines.  The generator itself is not modelled: state 0 reverses all
\* but the first card, the other states take every Stride-th card (a stride that
\* has no common factor with the deck sizes 50 and 60).
Stride(seed, n) == IF seed = 0 THEN n - 1 ELSE 6 * seed + 1

Shuffle(deck, seed) ==
    LET n == Len(deck)
    IN  [k \in 1 .. n |-> deck[(((k - 1) * Stride(seed, n)) % n) + 1]]

\* for i in range(num_players): for j in range(initial_cards_per_player):
\*     _draw_card(i)
\* k counts the draws made so far.
RECURSIVE Deal(_, _)
Deal(b, k) ==
    IF k >= b.num_players * initial_cards_per_player(b) THEN b
    ELSE Deal(_draw_card(b, k \div initial_cards_per_player(b)), k + 1)

\* self is the board reset is called on: its num_players, variant and _rng
\* are kept or used, every other attribute is assigned.
reset(self, seed, starting_player) ==
    Deal([num_players |-> self.num_players,
          variant |-> self.variant,
          rng |-> rng_shuffled(rng_seed(self.rng, seed)),
          played_cards |-> [c \in {"r", "y", "g", "b", "p"} |-> 0],
          discarded_cards |-> <<>>,
          starting_player |-> 0,
          turn_index |-> 0,
          turns_left |-> NoneInt,
          strikes |-> 0,
          clues |-> MAX_CLUES,
          card_info |-> [p \in 0 .. self.num_players - 1 |-> <<>>],
          deck |-> Shuffle(NewDeck(self.variant), rng_seed(self.rng, seed)),
          hands |-> [p \in 0 .. self.num_players - 1 |-> <<>>],
          turns |-> <<>>], 0)

\* Board.__init__
Board(num_players, seed, starting_player, variant) ==
    reset([num_players |-> num_players, variant |-> variant, rng |-> Random0],
          seed, starting_player)

---------------------------------------------------------------------------
(* Board: the turn evaluator *)

Ok(b) == [b |-> b, exc |-> "None"]
Raise(b, exc) == [b |-> b, exc |-> exc]

\* self._hands[target], self._card_info[target]
PlayerInRange(b, target) == -b.num_players <= target /\ target < b.num_players
Player(b, target) == IF target < 0 THEN target + b.num_players ELSE target

\* Mutant: only the slots the clue touches are updated.
ClueInfo_TouchedOnly(b, clue, p) ==
    LET n == Min(Len(b.hands[p]), Len(b.card_info[p]))
    IN  [k \in 1 .. Len(b.card_info[p]) |->
            IF k <= n /\ clue_touched(b.variant, b.hands[p][k], clue)
            THEN update_info(b.variant, b.card_info[p][k], clue, TRUE)
            ELSE b.card_info[p][k]]

\* for card, card_info in zip(hands[target], card_info[target]): update_info(...)
ClueInfo(b, clue, p) ==
    LET n == Min(Len(b.hands[p]), Len(b.card_info[p]))
    IN  [k \in 1 .. Len(b.card_info[p]) |->
            IF k <= n
            THEN update_info(b.variant, b.card_info[p][k], clue,
                             clue_touched(b.variant, b.hands[p][k], clue))
            ELSE b.card_info[p][k]]

\* Mutant: the token check is missing.
ClueRefused_NoTokenCheck(b, clue) == clue.target = current_player(b)

\* if target == self.current_player: raise ...; if self.clues == 0: raise ...
ClueRefused(b, clue) == clue.target = current_player(b) \/ b.clues = 0

\* Mutant: the clue costs no token.
SpendClue_Free(b) == b

\* self.clues -= 1
SpendClue(b) == [b EXCEPT !.clues = @ - 1]

_clue_turn(b, clue) ==
    IF ClueRefused(b, clue) THEN Raise(b, "InvalidMove")
    ELSE IF ~PlayerInRange(b, clue.target) THEN Raise(b, "IndexError")
    ELSE LET p == Player(b, clue.target)
         IN  IF /\ Min(Len(b.hands[p]), Len(b.card_info[p])) > 0
                /\ clue_touched_raises(b.variant, clue)
             THEN Raise(b, "InvalidMove")
             ELSE Ok(SpendClue([b EXCEPT !.card_info[p] = ClueInfo(b, clue, p)]))

\* if played_card.number == 5: clues += 1; clues = max(clues, MAX_CLUES)
Refund(b, played_card) ==
    IF played_card.number = 5
    THEN [b EXCEPT !.clues = Max(b.clues + 1, MAX_CLUES)]
    ELSE b

\* Mutant: the play raises every stack (`for c in played_cards: ... += 1`).
PlaySuccess_AllStacks(b, played_card) ==
    Refund([b EXCEPT !.played_cards = [c \in DOMAIN @ |-> @[c] + 1]], played_card)

PlaySuccess(b, played_card) ==
    Refund([b EXCEPT !.played_cards[played_card.color] = @ + 1], played_card)

\* Mutant: the misplayed card is not put on the discard pile.
Misplay_NoDiscard(b, played_card) == [b EXCEPT !.strikes = @ + 1]

\* Mutant: a misplay costs two strikes.
Misplay_TwoStrikes(b, played_card) ==
    [b EXCEPT !.discarded_cards = Append(@, played_card), !.strikes = @ + 2]

Misplay(b, played_card) ==
    [b EXCEPT !.discarded_cards = Append(@, played_card), !.strikes = @ + 1]

\* Mutant: the knowledge slot popped is the first one (`pop(0)`).
PopInfoAndDraw_First(b, index) ==
    IF ~InRange(current_info(b), index) THEN Raise(b, "IndexError")
    ELSE Ok(_draw_card([b EXCEPT !.card_info[current_player(b)] = PyPop(@, 0)],
                      NoIndex))

\* self.current_info.pop(index); self._draw_card()
PopInfoAndDraw(b, index) ==
    IF ~InRange(current_info(b), index) THEN Raise(b, "IndexError")
    ELSE Ok(_draw_card([b EXCEPT !.card_info[current_player(b)] = PyPop(@, index)],
                      NoIndex))

_play_turn(b, card) ==
    IF ~InRange(_current_hand(b), card.index) THEN Raise(b, "IndexError")
    ELSE LET played_card == PyAt(_current_hand(b), card.index)
             b1 == [b EXCEPT !.hands[current_player(b)] = PyPop(@, card.index)]
         IN  IF NoStack(b1, played_card) THEN Raise(b1, "KeyError")
             ELSE IF b1.played_cards[played_card.color] = played_card.number - 1
                  THEN PopInfoAndDraw(PlaySuccess(b1, played_card), card.index)
                  ELSE PopInfoAndDraw(Misplay(b1, played_card), card.index)

\* Mutant: the test is `>` for `==`.
DiscardRefused_Above(b) == b.clues > MAX_CLUES

\* if self.clues == Board.MAX_CLUES: raise InvalidMove
DiscardRefused(b) == b.clues = MAX_CLUES

_discard_turn(b, card) ==
    IF DiscardRefused(b) THEN Raise(b, "InvalidMove")
    ELSE IF ~InRange(_current_hand(b), card.index) THEN Raise(b, "IndexError")
    ELSE LET discarded_card == PyAt(_current_hand(b), card.index)
             b1 == [b EXCEPT !.hands[current_player(b)] = PyPop(@, card.index),
                             !.discarded_cards = Append(@, discarded_card)]
             r == PopInfoAndDraw(b1, card.index)
         IN  IF r.exc # "None" THEN r
             ELSE Ok([r.b EXCEPT !.clues = @ + 1])

\* Mutant: the turn is not recorded in the history.
EndTurn_NoHistory(b, turn) ==
    [b EXCEPT !.turns_left = IF IsNone(@) THEN @ ELSE Some(Val(@) - 1),
              !.turn_index = @ + 1]

\* Mutant: a Clue turn does not count down.
EndTurn_ClueKeepsCountdown(b, turn) ==
    [b EXCEPT !.turns_left = IF IsNone(@) \/ turn.kind = "Clue" THEN @
                             ELSE Some(Val(@) - 1),
              !.turns = Append(@, turn),
              !.turn_index = @ + 1]

\* The tail of evaluate, after the turn was applied.
EndTurn(b, turn) ==
    [b EXCEPT !.turns_left = IF IsNone(@) THEN @ ELSE Some(Val(@) - 1),
              !.turns = Append(@, turn),
              !.turn_index = @ + 1]

evaluate(b, turn) ==
    LET r == CASE turn.kind = "Clue" -> _clue_turn(b, turn)
               [] turn.kind = "Play" -> _play_turn(b, turn)
               [] turn.kind = "Discard" -> _discard_turn(b, turn)
               [] OTHER -> Raise(b, "InvalidMove")
    IN  IF r.exc # "None" THEN r ELSE Ok(EndTurn(r.b, turn))

---------------------------------------------------------------------------
(* The agents *)

\* A bot's play(board): the turn it returns, or the exception it raises, and
\* the board it leaves.
DumbBot_play(b) == [turn |-> Play(0), exc |-> "None", b |-> b]

\* for i, card in zip(range(size - 1, -1, -1), reversed(hand)):
\*     if board.is_playable(card): return Play(i)
\* Seen(i): the loop reaches slot i (no later slot returned or raised).
BasicCheatingBot_play(b) ==
    LET hand == _current_hand(b)
        Stops(i) == NoStack(b, hand[i + 1]) \/ is_playable(b, hand[i + 1])
        stops == {i \in 0 .. Len(hand) - 1 : Stops(i)}
    IN  IF stops # {}
        THEN LET i == CHOOSE j \in stops : \A k \in stops : k <= j
             IN  IF NoStack(b, hand[i + 1])
                 THEN [turn |-> NoTurn, exc |-> "KeyError", b |-> b]
                 ELSE [turn |-> Play(i), exc |-> "None", b |-> b]
        ELSE IF b.clues = 0
             THEN [turn |-> Discard(current_hand_size(b) - 1), exc |-> "None", b |-> b]
             ELSE [turn |-> Clue(relative_player(b, 1), "r", NoNumber), exc |-> "None",
                   b |-> b]

\* players = list(range(num_players));
\* players[current_player + 1:] + players[:current_player]
other_players(b) ==
    LET players == [k \in 1 .. b.num_players |-> k - 1]
    IN  SubSeq(players, current_player(b) + 2, b.num_players)
        \o SubSeq(players, 1, current_player(b))

\* Mutant: the current player's hand is returned like any other.
get_hand_NoCheck(b, player) == [hand |-> b.hands[player], exc |-> "None"]

\* Board.get_hand: the hand, or the exception raised.
get_hand(b, player) ==
    IF player = current_player(b) THEN [hand |-> <<>>, exc |-> "InvalidMove"]
    ELSE [hand |-> b.hands[player], exc |-> "None"]

\* Board.get_info: the knowledge slots, and the exception raised (none).
get_info(b, player) == [info |-> b.card_info[player], exc |-> "None"]

\* The first slot (from 1) of a hand at which `if board.is_playable(card)` returns
\* or raises, 0 when the loop runs to its end.
FirstPlayable(b, hand) ==
    LET stops == {j \in 1 .. Len(hand) : NoStack(b, hand[j]) \/ is_playable(b, hand[j])}
    IN  IF stops = {} THEN 0 ELSE CHOOSE j \in stops : \A k \in stops : j <= k

\* ClueBot: play a clued card; out of clues, discard the last card; clue the
\* first playable card's color; else a throwaway clue or a discard.
ClueBot_play(b) ==
    LET info == current_info(b)
        clued == {i \in 0 .. Len(info) - 1 : info[i + 1].clued}
        others == other_players(b)
        found == {k \in 1 .. Len(others) : FirstPlayable(b, get_hand(b, others[k]).hand) # 0}
    IN  IF clued # {}
        THEN [turn |-> Play(CHOOSE i \in clued : \A j \in clued : i <= j), exc |-> "None",
              b |-> b]
        ELSE IF b.clues = 0
        THEN [turn |-> Discard(current_hand_size(b) - 1), exc |-> "None", b |-> b]
        ELSE IF found # {}
        THEN LET k == CHOOSE x \in found : \A y \in found : x <= y
                 hand == get_hand(b, others[k]).hand
                 card == hand[FirstPlayable(b, hand)]
             IN  IF NoStack(b, card) THEN [turn |-> NoTurn, exc |-> "KeyError", b |-> b]
                 ELSE [turn |-> Clue(others[k], card.color, NoNumber), exc |-> "None",
                       b |-> b]
        ELSE IF b.clues >= 7
        THEN [turn |-> Clue(relative_player(b, 1), "r", NoNumber), exc |-> "None", b |-> b]
        ELSE [turn |-> Discard(current_hand_size(b) - 1), exc |-> "None", b |-> b]

\* Board.is_unique.  CARD_NUMBERS.count([card.number]) counts the elements of a
\* list of integers that equal a list: none.
is_unique(b, card) == 0 - PyCount(b.discarded_cards, card) = 1

\* hand.sort(key=lambda x: x.number, reverse=True): a stable sort, the highest
\* number first; cards of one number keep their order.
SortPlace(hand, k) ==
    Cardinality({j \in 1 .. Len(hand) : hand[j].number > hand[k].number})
    + Cardinality({j \in 1 .. k : hand[j].number = hand[k].number})
SortByNumberDesc(hand) ==
    [i \in 1 .. Len(hand) |-> hand[CHOOSE k \in 1 .. Len(hand) : SortPlace(hand, k) = i]]

\* for i, card in enumerate(hand): if board.is_discardable(card): return ...
\* The first slot (from 1) whose card is discardable, 0 when none.
FirstDiscardable(b, hand) ==
    LET stops == {j \in 1 .. Len(hand) : is_discardable(b, hand[j])}
    IN  IF stops = {} THEN 0 ELSE CHOOSE j \in stops : \A k \in stops : j <= k

\* for i, card in enumerate(hand): if not board.is_unique(card): return ...
\* The first slot (from 1) whose card is not unique, 0 when none.
FirstNotUnique(b, hand) ==
    LET stops == {j \in 1 .. Len(hand) : ~is_unique(b, hand[j])}
    IN  IF stops = {} THEN 0 ELSE CHOOSE j \in stops : \A k \in stops : j <= k

\* CheatingBot: play the first playable card; clue above 6 tokens; discard the
\* first discardable card; clue while a token is left; else sort the hand (the
\* board's own list) and discard the first card that is not unique, or slot 0.
\* A rainbow card in the hand raises KeyError in the first loop, so the later
\* loops meet none.
CheatingBot_play(b) ==
    LET hand == _current_hand(b)
        playable == FirstPlayable(b, hand)
        discardable == FirstDiscardable(b, hand)
        clue == Clue(relative_player(b, 1), "r", NoNumber)
        sorted == [b EXCEPT !.hands[current_player(b)] = SortByNumberDesc(@)]
        notUnique == FirstNotUnique(sorted, _current_hand(sorted))
    IN  IF playable # 0
        THEN IF NoStack(b, hand[playable])
             THEN [turn |-> NoTurn, exc |-> "KeyError", b |-> b]
             ELSE [turn |-> Play(playable - 1), exc |-> "None", b |-> b]
        ELSE IF b.clues > 6 THEN [turn |-> clue, exc |-> "None", b |-> b]
        ELSE IF discardable # 0
        THEN [turn |-> Discard(discardable - 1), exc |-> "None", b |-> b]
        ELSE IF b.clues > 0 THEN [turn |-> clue, exc |-> "None", b |-> b]
        ELSE IF notUnique # 0
        THEN [turn |-> Discard(notUnique - 1), exc |-> "None", b |-> sorted]
        ELSE [turn |-> Discard(0), exc |-> "None", b |-> sorted]

Bots == {"DumbBot", "BasicCheatingBot", "CheatingBot", "ClueBot"}

Agents == Bots \cup {"Free"}

bot_play(a, b) ==
    CASE a = "DumbBot" -> DumbBot_play(b)
      [] a = "BasicCheatingBot" -> BasicCheatingBot_play(b)
      [] a = "CheatingBot" -> CheatingBot_play(b)
      [] OTHER -> ClueBot_play(b)

---------------------------------------------------------------------------
(* The inputs *)

SlotIndices == {-1, 0, 2, 5}

ClueColors == {"r", "g", "m"}

ClueNumbers == {1, 3}

\* Every player as a clue's target (the current one included), and one target
\* that is no player.
Turns(b) ==
    {Play(i) : i \in SlotIndices} \cup {Discard(i) : i \in SlotIndices}
    \cup {Clue(t, c, NoNumber) : t \in 0 .. b.num_players - 1, c \in ClueColors}
    \cup {Clue(t, NoColor, n) : t \in 0 .. b.num_players - 1, n \in ClueNumbers}
    \cup {Clue(b.num_players, "r", NoNumber), OtherTurn}

---------------------------------------------------------------------------
(* The state machine *)

Init ==
    /\ \E n \in PlayerCounts, v \in Variants, s \in Seeds, sp \in StartingPlayers :
           /\ board = Board(n, s, sp, v)
           /\ lastTurn = BoardCall(s, sp)
    /\ agent \in Agents
    /\ raised = "None"

\* b.evaluate(turn) on the board b: the board the call leaves, and what it
\* raised.
Evaluate(b, turn) ==
    LET r == evaluate(b, turn)
    IN  /\ board' = r.b
        /\ lastTurn' = turn
        /\ raised' = r.exc
        /\ UNCHANGED agent

\* board.reset(seed, starting_player).  score_bot resets the board before every
\* game: a board just constructed or reset, and a board whose game is over.
\* A reset in mid-game is explored on the boards that one turn has been
\* evaluated on.
Reset ==
    /\ raised = "None"
    /\ \/ lastTurn.kind \in {"Board", "Reset"}
       \/ game_over(board)
       \/ board.turn_index = 1
    /\ \E s \in Seeds, sp \in StartingPlayers :
        /\ board' = reset(board, s, sp)
        /\ lastTurn' = ResetCall(s, sp)
        /\ raised' = "None"
        /\ UNCHANGED agent

\* An arbitrary agent: any turn of Turns.
FreeTurn(stop) ==
    /\ agent = "Free"
    /\ board.turn_index < MaxTurns
    /\ stop => ~game_over(board) /\ raised = "None"
    /\ \E turn \in Turns(board) : Evaluate(board, turn)

\* turn = bots[board.current_player].play(board); board.evaluate(turn): the
\* turn is evaluated on the board that play left.
BotTurn(stop) ==
    /\ agent \in Bots
    /\ stop => ~game_over(board) /\ raised = "None"
    /\ bot_play(agent, board).exc = "None"
    /\ Evaluate(bot_play(agent, board).b, bot_play(agent, board).turn)

\* bots[board.current_player].play(board) raises: evaluate is not called.
BotRaises(stop) ==
    /\ agent \in Bots
    /\ stop => ~game_over(board) /\ raised = "None"
    /\ bot_play(agent, board).exc # "None"
    /\ raised' = bot_play(agent, board).exc
    /\ lastTurn' = NoTurn
    /\ board' = bot_play(agent, board).b
    /\ UNCHANGED agent

\* A call outside the rules of the game, told by its arguments and the board
\* it is made on: a clue to oneself, to no player or without a token; a clue
\* of the rainbow color (explored on the boards that hold MAX_CLUES tokens or
\* more); a discard at full tokens; a slot the hand does not have; a rainbow
\* card played; a turn of no known type.
Misuse(b, turn) ==
    CASE turn.kind = "Clue" ->
             \/ turn.target = current_player(b)
             \/ turn.target \notin 0 .. b.num_players - 1
             \/ b.clues = 0
             \/ b.variant = "Rainbow" /\ turn.color = "m" /\ b.clues >= MAX_CLUES
      [] turn.kind = "Discard" ->
             b.clues = MAX_CLUES \/ ~InRange(_current_hand(b), turn.index)
      [] turn.kind = "Play" ->
             IF InRange(_current_hand(b), turn.index)
             THEN PyAt(_current_hand(b), turn.index).color = "m"
             ELSE TRUE
      [] OTHER -> TRUE

\* In a bot's game, a call outside the rules, made at any depth: whether the
\* board refuses it is for evaluate to decide.
BadTurn(stop) ==
    /\ agent \in Bots
    /\ stop => ~game_over(board) /\ raised = "None"
    /\ \E turn \in Turns(board) : Misuse(board, turn) /\ Evaluate(board, turn)

\* Any sequence of evaluate and reset calls.
Next ==
    FreeTurn(FALSE) \/ BotTurn(FALSE) \/ BotRaises(FALSE) \/ BadTurn(FALSE) \/ Reset

Spec == Init /\ [][Next]_vars

\* main.run: while not board.game_over, one turn; an exception ends the run.
NextRun == FreeTurn(TRUE) \/ BotTurn(TRUE) \/ BotRaises(TRUE) \/ BadTurn(TRUE)

SpecRun == Init /\ [][NextRun]_vars

---------------------------------------------------------------------------
(* The claims *)

Players(b) == 0 .. b.num_players - 1

\* The number of cards in b.hands.
RECURSIVE HandCards(_, _)
HandCards(b, k) == IF k >= b.num_players THEN 0 ELSE Len(b.hands[k]) + HandCards(b, k + 1)

CardCount(b) == Len(b.deck) + HandCards(b, 0) + Len(b.discarded_cards) + score(b)

\* C1 (card conservation): in every state of a Standard game, reached by any
\* sequence of evaluate calls, succeeding or failing, the deck, the hands, the
\* discard pile and the played stacks hold 50 cards together.
C1_Conservation ==
    board.variant = "Default" => CardCount(board) = 50

\* A Standard game whose deck is drawn, with cards played, misplayed and
\* discarded, after a call that failed.
C1_Witness ==
    /\ board.variant = "Default"
    /\ board.deck = <<>>
    /\ score(board) > 0
    /\ board.strikes > 0
    /\ Len(board.discarded_cards) > board.strikes
    /\ board.turns_left = Some(0)

\* C2 (clue-token bounds): in every reachable state 0 <= clues <= MAX_CLUES.
C2_ClueBounds ==
    0 <= board.clues /\ board.clues <= MAX_CLUES

\* Slot k of player p's hand: the knowledge slot holds the card's color and number.
SlotSound(b, p, k) ==
    /\ k <= Len(b.card_info[p])
    /\ b.hands[p][k].color \in b.card_info[p][k].color
    /\ b.hands[p][k].number \in b.card_info[p][k].number

\* Every hand slot's true color and number are among the slot's candidates.
Sound(b) ==
    \A p \in Players(b) : \A k \in 1 .. Len(b.hands[p]) : SlotSound(b, p, k)

\* The agent's play leaves the board as it is (what C19 is about): the turn it
\* returns is evaluated on the board of this state.
ReadOnlyPlay == agent \in Bots => bot_play(agent, board).b = board

Called(kind) == lastTurn'.kind = kind
\* The step is a call of evaluate that returned.
Returned == lastTurn' # NoTurn /\ raised' = "None" /\ board'.turn_index = board.turn_index + 1
\* The step is a call of evaluate that raised.
Failed == lastTurn' # NoTurn /\ raised' # "None"

\* C4 (monotonic narrowing): across every clue application, in every variant,
\* no knowledge slot's candidate colors or numbers gain an element and no
\* clued flag goes from true to false.
C4_MonotonicNarrowing ==
    [][(Called("Clue") /\ Returned) =>
           \A p \in Players(board) :
               /\ board'.hands[p] = board.hands[p]
               /\ Len(board'.card_info[p]) = Len(board.card_info[p])
               /\ \A k \in 1 .. Len(board.card_info[p]) :
                      /\ board'.card_info[p][k].color \subseteq board.card_info[p][k].color
                      /\ board'.card_info[p][k].number \subseteq board.card_info[p][k].number
                      /\ board.card_info[p][k].clued => board'.card_info[p][k].clued]_vars

\* After a clue that returned, its target holds a slot that earlier clues touched
\* and narrowed to one color, that this clue does not touch and narrows in its
\* numbers, and that is still clued.
C4_Witness ==
    /\ lastTurn.kind = "Clue" /\ raised = "None"
    /\ lastTurn.number # NoNumber
    /\ LET p == lastTurn.target
       IN  \E k \in 1 .. Len(board.card_info[p]) :
               /\ board.card_info[p][k].clued
               /\ Cardinality(board.card_info[p][k].color) = 1
               /\ lastTurn.number \notin board.card_info[p][k].number
               /\ k <= Len(board.hands[p])
               /\ ~clue_touched(board.variant, board.hands[p][k], lastTurn)

\* C5 (atomic failure): in every variant, an evaluate call that fails leaves the
\* whole board unchanged.
C5_AtomicFailure ==
    [][Failed => board' = board]_vars

\* C6 (clue legality): evaluate(Clue) fails whenever the target is the current
\* player or clues = 0, and the failing call leaves the board unchanged.
C6_ClueLegality ==
    [][(Called("Clue") /\ (lastTurn'.target = current_player(board) \/ board.clues = 0)) =>
           (raised' # "None" /\ board' = board)]_vars

\* A clue for another player was refused for want of a token.
C6_Witness ==
    /\ lastTurn.kind = "Clue" /\ raised = "InvalidMove"
    /\ board.clues = 0
    /\ lastTurn.target # current_player(board)
    /\ lastTurn.target \in Players(board)

\* C7 (discard legality): evaluate(Discard) at clues = MAX_CLUES fails and
\* leaves the board unchanged.
C7_DiscardLegality ==
    [][(Called("Discard") /\ board.clues = MAX_CLUES) =>
           (raised' # "None" /\ board' = board)]_vars

\* After some turns, a discard of a slot the hand has was refused at full tokens.
C7_Witness ==
    /\ lastTurn.kind = "Discard" /\ raised = "InvalidMove"
    /\ board.clues = MAX_CLUES
    /\ board.turn_index > 0
    /\ InRange(_current_hand(board), lastTurn.index)

\* The card a Play step takes from the current hand.
PlayedCard == PyAt(_current_hand(board), lastTurn'.index)

\* C8 (five-card refund): playing a playable 5 raises its stack to 5 and sets
\* clues to min(clues + 1, MAX_CLUES); playing any other playable card leaves
\* clues unchanged.
C8_FiveRefund ==
    [][(Called("Play") /\ Returned /\ is_playable(board, PlayedCard)) =>
           IF PlayedCard.number = 5
           THEN /\ board'.played_cards[PlayedCard.color] = 5
                /\ board'.clues = Min(board.clues + 1, MAX_CLUES)
           ELSE board'.clues = board.clues]_vars

\* The cards left in the deck by the deal.
DeckAfterDeal(b) ==
    Max(0, Len(NewDeck(b.variant)) - b.num_players * initial_cards_per_player(b))

\* The turns of the history that attempted a draw.
DrawTurns(b) == {k \in 1 .. Len(b.turns) : b.turns[k].kind \in {"Play", "Discard"}}

\* The place in the history of the turn that made the first draw attempt against
\* the empty deck (0: no turn has), which is the draw attempt after as many as the
\* deal left cards.
InitTurn(b) ==
    LET first == {k \in DrawTurns(b) :
                     Cardinality({j \in DrawTurns(b) : j <= k}) = DeckAfterDeal(b) + 1}
    IN  IF first = {} THEN 0 ELSE CHOOSE k \in first : TRUE

\* C9 as stated (countdown start): the call that makes the first draw attempt
\* against an empty deck returns with turnsRemaining = numPlayers + 1.
C9_StartsAtPlayersPlusOne ==
    [][(IsNone(board.turns_left) /\ ~IsNone(board'.turns_left)) =>
           board'.turns_left = Some(board.num_players + 1)]_vars

\* C9 as amended: turns_left is unset until a Play or Discard makes the first
\* draw attempt against the empty deck; that call returns with turns_left =
\* num_players, and k turns later turns_left = num_players - k, so that it is 0
\* and game_over is true exactly num_players turns after the initializing turn.
C9_Countdown ==
    IF InitTurn(board) = 0 THEN IsNone(board.turns_left)
    ELSE /\ ~IsNone(board.turns_left)
         /\ Val(board.turns_left) =
                board.num_players - (Len(board.turns) - InitTurn(board))
         /\ Len(board.turns) = InitTurn(board) + board.num_players => game_over(board)

\* The countdown has run out, and nothing else ends the game.
C9_Witness ==
    /\ InitTurn(board) # 0
    /\ Len(board.turns) = InitTurn(board) + board.num_players
    /\ board.turns_left = Some(0)
    /\ board.strikes < 3 /\ ~AllPlayed(board)

\* What every turn uses up: a card of the deck or of a hand is worth more than
\* the tokens a turn can return.
Rank(b) == (MAX_CLUES + 1) * (Len(b.deck) + HandCards(b, 0)) + b.clues

\* Rank after construction: the whole deck and MAX_CLUES tokens.
InitialRank(b) == (MAX_CLUES + 1) * Len(NewDeck(b.variant)) + MAX_CLUES

\* C10 (termination): under the driver loop, whatever the agents choose, every
\* evaluation that succeeds uses up Rank, which is never negative: the turns
\* taken and the Rank left never exceed the initial Rank, so a game has at most
\* InitialRank successful evaluations and then stops.
C10_Termination ==
    /\ Rank(board) >= 0
    /\ board.turn_index + Rank(board) <= InitialRank(board)
    /\ Len(board.turns) = board.turn_index

\* A game played to its end by the loop condition, the deck drawn and thirty
\* turns or more taken.
C10_Witness ==
    /\ game_over(board) /\ raised = "None"
    /\ board.deck = <<>>
    /\ board.turn_index >= 30
    /\ agent = "BasicCheatingBot"

\* C11 (strike bounds): when evaluate is only called while game_over is false,
\* strikes is in 0 .. 3 in every state, and game_over is true as soon as
\* strikes is 3.
C11_StrikeBounds ==
    /\ board.strikes \in 0 .. 3
    /\ board.strikes = 3 => game_over(board)

\* The third misplay has just ended a game that nothing else ends.
C11_Witness ==
    /\ board.strikes = 3
    /\ lastTurn.kind = "Play" /\ raised = "None"
    /\ Len(board.discarded_cards) >= 3
    /\ ~AllPlayed(board) /\ board.turns_left # Some(0)
    /\ game_over(board)

\* C12 (misplay): a Play of a card that is not playable adds exactly one strike,
\* appends exactly that card to the discard pile and leaves every played stack
\* and clues unchanged; a Play of a playable card adds no strike and nothing to
\* the discard pile.
C12_Misplay ==
    [][(Called("Play") /\ Returned) =>
           IF is_playable(board, PlayedCard)
           THEN /\ board'.strikes = board.strikes
                /\ board'.discarded_cards = board.discarded_cards
           ELSE /\ board'.strikes = board.strikes + 1
                /\ board'.discarded_cards = Append(board.discarded_cards, PlayedCard)
                /\ board'.played_cards = board.played_cards
                /\ board'.clues = board.clues]_vars

\* A misplay onto a discard pile that holds cards, after cards were played.
C12_Witness ==
    /\ lastTurn.kind = "Play" /\ raised = "None"
    /\ board.strikes > 0
    /\ Len(board.discarded_cards) > board.strikes
    /\ score(board) > 0
    /\ board.turns # <<>>
    /\ LET b == board.discarded_cards IN ~is_discardable(board, b[Len(b)])

\* C13 (rainbow clue restriction): in the Rainbow variant an evaluate(Clue) of
\* the color "m" fails, and the failing call changes no knowledge slot, no clue
\* token and no turn counter.
C13_RainbowClueFails ==
    [][(Called("Clue") /\ board.variant = "Rainbow" /\ lastTurn'.color = "m") =>
           /\ raised' # "None"
           /\ board'.card_info = board.card_info
           /\ board'.clues = board.clues
           /\ board'.turn_index = board.turn_index
           /\ board'.turns_left = board.turns_left]_vars

\* C14 (out-of-range slot): a Play or Discard whose slot index is not in
\* 0 .. handSize - 1 of the current player's hand fails and leaves the board
\* unchanged.
C14_OutOfRangeSlot ==
    [][((Called("Play") \/ Called("Discard"))
            /\ lastTurn'.index \notin 0 .. current_hand_size(board) - 1) =>
           (raised' # "None" /\ board' = board)]_vars

\* The last call on the board was its construction or a reset.
Constructed == lastTurn.kind \in {"Board", "Reset"}

\* C15 (initial hand size): after construction or reset every player holds 5
\* cards when there are 2 or 3 players and 4 cards when there are 4 or 5, with as
\* many knowledge slots.
C15_InitialHandSize ==
    Constructed =>
        \A p \in Players(board) :
            /\ Len(board.hands[p]) = (IF board.num_players \in {2, 3} THEN 5 ELSE 4)
            /\ Len(board.card_info[p]) = Len(board.hands[p])

\* C16 (starting player): after Board(numPlayers, seed, startingPlayer) or
\* reset(seed, startingPlayer) the current player is (turnIndex + startingPlayer)
\* mod numPlayers for the configured startingPlayer: the first turn is taken by
\* player startingPlayer.
C16_StartingPlayer ==
    Constructed =>
        /\ current_player(board) = (board.turn_index + lastTurn.target) % board.num_players
        /\ current_player(board) = lastTurn.target

\* A knowledge slot as it is dealt: every color and number of the variant,
\* unclued.
FullInfo(variant) == CardInfo(SetOf(CARD_COLORS(variant)), SetOf(CARD_NUMBERS))

\* C17 (reset idempotence): reset with a given seed produces, from any prior
\* state (a played board, a board just reset), the fresh state that the seed
\* determines, which is the state a construction with that seed produces: same
\* deck order and hands, all knowledge full and unclued, turn index 0, clues
\* MAX_CLUES, strikes 0, all stacks 0, no discard, no history, countdown unset.
C17_ResetIdempotent ==
    [][Called("Reset") =>
           /\ board' = Board(board.num_players, lastTurn'.number, lastTurn'.target,
                             board.variant)
           /\ board'.turn_index = 0 /\ board'.clues = MAX_CLUES /\ board'.strikes = 0
           /\ \A c \in DOMAIN board'.played_cards : board'.played_cards[c] = 0
           /\ board'.discarded_cards = <<>> /\ board'.turns = <<>>
           /\ IsNone(board'.turns_left)
           /\ \A p \in Players(board) : \A k \in 1 .. Len(board'.card_info[p]) :
                  board'.card_info[p][k] = FullInfo(board.variant)]_vars

\* A board reset with seed 1, fresh, in a game that a bot plays.
C17_Witness ==
    /\ lastTurn = ResetCall(1, 1)
    /\ agent = "BasicCheatingBot"
    /\ board.turn_index = 0 /\ board.turns = <<>>
    /\ board.deck = Board(board.num_players, 1, 1, board.variant).deck

\* C18 (hidden information): in every state get_hand(p) fails for the current
\* player and returns p's cards for every other player, and get_info(p) succeeds
\* for every player, the current one included.
C18_HiddenInformation ==
    \A p \in Players(board) :
        /\ p = current_player(board) => get_hand(board, p).exc # "None"
        /\ p # current_player(board) =>
               /\ get_hand(board, p).exc = "None"
               /\ get_hand(board, p).hand = board.hands[p]
        /\ get_info(board, p).exc = "None"
        /\ get_info(board, p).info = board.card_info[p]

\* ClueBot, which reads the other hands through get_hand, has clued a color
\* other than its throwaway clue's, in a turn that is not player 0's.
C18_Witness ==
    /\ agent = "ClueBot"
    /\ lastTurn.kind = "Clue" /\ raised = "None"
    /\ lastTurn.color # "r"
    /\ board.turn_index > 1
    /\ current_player(board) # 0

\* C19 (agents are read-only): a bot's play(board) leaves the board unchanged,
\* the content and the order of every hand included.
C19_AgentsReadOnly ==
    agent \in Bots => bot_play(agent, board).b = board

\* C20 (knowledge/hand alignment): in every reachable state every player has as
\* many knowledge slots as cards in hand.
C20_Alignment ==
    \A p \in Players(board) : Len(board.card_info[p]) = Len(board.hands[p])

\* C21 (stacks per declared color): in every variant the played stacks hold one
\* entry for each color the variant's deck declares, 0 after construction or
\* reset, so that is_playable, is_discardable and Play are defined for every
\* card of the deck and of the hands.
C21_StacksPerColor ==
    /\ DOMAIN board.played_cards = SetOf(CARD_COLORS(board.variant))
    /\ Constructed => \A c \in DOMAIN board.played_cards : board.played_cards[c] = 0
    /\ \A k \in 1 .. Len(board.deck) : ~NoStack(board, board.deck[k])
    /\ \A p \in Players(board) : \A k \in 1 .. Len(board.hands[p]) :
           ~NoStack(board, board.hands[p][k])

\* The cards a variant's deck is made of.
DeckCards(variant) == SetOf(NewDeck(variant))

\* The copies of a rank that a color has: 3 of 1, 2 of 2, 3 and 4, 1 of 5.
Copies(number) == PyCount(CARD_NUMBERS, number)

\* C22 (is_unique): in every reachable state and for every card, is_unique(card)
\* is true iff the copies of the card's rank per color less the occurrences of
\* the card in the discard pile is 1.
C22_IsUnique ==
    \A card \in DeckCards(board.variant) :
        is_unique(board, card) <=>
            (Copies(card.number) - PyCount(board.discarded_cards, card) = 1)

\* The target of a Clue step, as the index of its hand.
ClueTarget == Player(board, lastTurn'.target)

\* C23 (clue effect and frame): a successful Clue decrements clues by exactly 1
\* and updates the knowledge of every slot of the target's hand according to
\* whether the clue touches that slot's card; it leaves all hands, the deck,
\* the discard pile, the played stacks, strikes and the knowledge of every
\* player other than the target unchanged.
C23_ClueEffect ==
    [][(Called("Clue") /\ Returned) =>
           /\ board'.clues = board.clues - 1
           /\ Len(board'.card_info[ClueTarget]) = Len(board.card_info[ClueTarget])
           /\ \A k \in 1 .. Len(board.hands[ClueTarget]) :
                  board'.card_info[ClueTarget][k] =
                      update_info(board.variant, board.card_info[ClueTarget][k], lastTurn',
                                  clue_touched(board.variant, board.hands[ClueTarget][k],
                                               lastTurn'))
           /\ board'.hands = board.hands
           /\ board'.deck = board.deck
           /\ board'.discarded_cards = board.discarded_cards
           /\ board'.played_cards = board.played_cards
           /\ board'.strikes = board.strikes
           /\ \A p \in Players(board) \ {ClueTarget} :
                  board'.card_info[p] = board.card_info[p]]_vars

\* In a game with a strike and a discard pile, a clue has returned whose target
\* holds a card it touches and a card it does not.
C23_Witness ==
    /\ lastTurn.kind = "Clue" /\ raised = "None"
    /\ board.strikes > 0 /\ board.discarded_cards # <<>> /\ score(board) > 0
    /\ board.clues < MAX_CLUES - 1
    /\ LET p == lastTurn.target
       IN  \E k, j \in 1 .. Len(board.hands[p]) :
               /\ clue_touched(board.variant, board.hands[p][k], lastTurn)
               /\ board.card_info[p][k].clued
               /\ ~clue_touched(board.variant, board.hands[p][j], lastTurn)

\* The hand, or the knowledge, that a turn leaves a player whose slot i it
\* removed: the card drawn (for the knowledge, a full slot) in front while the
\* deck has a card.
AfterDraw(b, list, i, new) ==
    IF b.deck # <<>> THEN PyInsert0(PyPop(list, i), new) ELSE PyPop(list, i)

\* C24 (discard effect): a successful Discard(i) of a slot i of the current
\* player's hand removes the card at slot i together with its knowledge slot,
\* appends exactly that card to the end of the discard pile, increments clues
\* by exactly 1, and changes neither strikes nor any played stack nor any other
\* player's hand.  The call is made on the board of this state (ReadOnlyPlay).
C24_DiscardEffect ==
    [][(Called("Discard") /\ Returned /\ ReadOnlyPlay
            /\ lastTurn'.index \in 0 .. current_hand_size(board) - 1) =>
           LET p == current_player(board)
               i == lastTurn'.index
           IN  /\ board'.hands[p] =
                      AfterDraw(board, board.hands[p], i, board.deck[Len(board.deck)])
               /\ board'.card_info[p] =
                      AfterDraw(board, board.card_info[p], i, FullInfo(board.variant))
               /\ board'.discarded_cards =
                      Append(board.discarded_cards, PyAt(board.hands[p], i))
               /\ board'.clues = board.clues + 1
               /\ board'.strikes = board.strikes
               /\ board'.played_cards = board.played_cards
               /\ \A q \in Players(board) \ {p} :
                      /\ board'.hands[q] = board.hands[q]
                      /\ board'.card_info[q] = board.card_info[q]]_vars

\* A discard of a slot other than the first has returned, made by a player who
\* holds knowledge that clues have narrowed, with a card drawn for it.
C24_Witness ==
    /\ lastTurn.kind = "Discard" /\ raised = "None"
    /\ lastTurn.index > 0
    /\ board.discarded_cards # <<>>
    /\ board.turn_index > 0
    /\ LET p == (current_player(board) + board.num_players - 1) % board.num_players
       IN  /\ Len(board.card_info[p]) = Len(board.hands[p])
           /\ board.card_info[p][1] = FullInfo(board.variant)
           /\ \E k \in 2 .. Len(board.card_info[p]) :
                  /\ board.card_info[p][k].clued
                  /\ Cardinality(board.card_info[p][k].color) < 5

\* The step is a call of evaluate (with a Clue, a Play, a Discard or an object of
\* another type) that did not raise.
Succeeded == lastTurn'.kind \in {"Clue", "Play", "Discard", "Other"} /\ raised' = "None"

\* C25 (turn index and history): every successful evaluate appends exactly its
\* action to the history and increments turn_index by exactly 1, every failing
\* evaluate changes neither, and in every reachable state the length of the
\* history is turn_index.
C25_TurnHistory ==
    /\ [](Len(board.turns) = board.turn_index)
    /\ [][Succeeded =>
              /\ board'.turns = Append(board.turns, lastTurn')
              /\ board'.turn_index = board.turn_index + 1]_vars
    /\ [][Failed =>
              /\ board'.turns = board.turns
              /\ board'.turn_index = board.turn_index]_vars

\* A call has failed on a board whose history holds a Clue, a Play and a
\* Discard.
C25_Witness ==
    /\ raised # "None" /\ lastTurn # NoTurn
    /\ Len(board.turns) = board.turn_index
    /\ \A kind \in {"Clue", "Play", "Discard"} :
           \E k \in 1 .. Len(board.turns) : board.turns[k].kind = kind

\* C26 (countdown lifecycle): turns_left is unset in every state whose deck is
\* not empty and no Clue turn initializes it; once it is set, every successful
\* evaluate of any kind decrements it by exactly 1, and a failing evaluate
\* leaves it unchanged.
C26_CountdownLifecycle ==
    /\ [](board.deck # <<>> => IsNone(board.turns_left))
    /\ [][(Called("Clue") /\ IsNone(board.turns_left)) => IsNone(board'.turns_left)]_vars
    /\ [][(Succeeded /\ ~IsNone(board.turns_left)) =>
              board'.turns_left = Some(Val(board.turns_left) - 1)]_vars
    /\ [][Failed => board'.turns_left = board.turns_left]_vars

\* With the deck drawn and the countdown running, a Clue has returned and has
\* taken one turn of the last round.
C26_Witness ==
    /\ lastTurn.kind = "Clue" /\ raised = "None"
    /\ board.deck = <<>>
    /\ ~IsNone(board.turns_left)
    /\ Val(board.turns_left) \in 0 .. board.num_players - 1
    /\ board.turns[Len(board.turns)] = lastTurn

\* C27 (stack monotonicity and cap): across any sequence of turns each color's
\* played stack never decreases, changes only by +1 and only on a successful
\* Play of a card of that color, and stays within 0 .. 5, so that score stays
\* within 0 .. 25 and never decreases.
C27_StackMonotonic ==
    /\ [](\A c \in DOMAIN board.played_cards : board.played_cards[c] \in 0 .. 5)
    /\ [](score(board) \in 0 .. 25)
    /\ [][~Called("Reset") =>
              /\ DOMAIN board'.played_cards = DOMAIN board.played_cards
              /\ score(board') >= score(board)
              /\ \A c \in DOMAIN board.played_cards :
                     \/ board'.played_cards[c] = board.played_cards[c]
                     \/ /\ board'.played_cards[c] = board.played_cards[c] + 1
                        /\ Called("Play") /\ raised' = "None"
                        /\ PlayedCard.color = c]_vars

\* A Play has completed a stack, in a game with 15 points or more.
C27_Witness ==
    /\ lastTurn.kind = "Play" /\ raised = "None"
    /\ score(board) >= 15
    /\ \E c \in DOMAIN board.played_cards : board.played_cards[c] = 5
    /\ \E c \in DOMAIN board.played_cards : board.played_cards[c] < 5

\* What C28 requires of a slot old -> new for a clue of the value `value` in one
\* dimension, given the two candidate sets of that dimension and of the other.
StandardUpdate(old, new, touched, value, oldDim, newDim, oldOther, newOther) ==
    /\ newOther = oldOther
    /\ IF touched
       THEN /\ newDim \subseteq {value}
            /\ newDim = oldDim \cap {value}
            /\ new.clued
       ELSE /\ newDim = oldDim \ {value}
            /\ new.clued = old.clued

\* C28 (Standard knowledge update): for a clue on one dimension, a touched slot
\* ends with that dimension's candidates reduced to at most the clued value and
\* with clued = true; an untouched slot has exactly the clued value removed from
\* that dimension and its flag unchanged; in both cases the candidates of the
\* other dimension are unchanged.
C28_StandardUpdate ==
    [][(Called("Clue") /\ Returned /\ board.variant = "Default") =>
           \A k \in 1 .. Len(board.hands[ClueTarget]) :
               LET old == board.card_info[ClueTarget][k]
                   new == board'.card_info[ClueTarget][k]
                   touched == VariantDefault_clue_touched(board.hands[ClueTarget][k],
                                                          lastTurn')
               IN  IF lastTurn'.color # NoColor
                   THEN StandardUpdate(old, new, touched, lastTurn'.color,
                                       old.color, new.color, old.number, new.number)
                   ELSE StandardUpdate(old, new, touched, lastTurn'.number,
                                       old.number, new.number, old.color, new.color)]_vars

\* A number clue has returned in a Standard game: it touched a slot whose colors
\* an earlier clue had narrowed, and missed an unclued slot whose colors are
\* narrowed too.
C28_Witness ==
    /\ board.variant = "Default"
    /\ lastTurn.kind = "Clue" /\ raised = "None" /\ lastTurn.number # NoNumber
    /\ LET p == lastTurn.target
       IN  \E k, j \in 1 .. Len(board.hands[p]) :
               /\ board.hands[p][k].number = lastTurn.number
               /\ board.card_info[p][k].number = {lastTurn.number}
               /\ board.card_info[p][k].clued
               /\ Cardinality(board.card_info[p][k].color) = 4
               /\ board.hands[p][j].number # lastTurn.number
               /\ ~board.card_info[p][j].clued
               /\ lastTurn.number \notin board.card_info[p][j].number
               /\ Cardinality(board.card_info[p][j].color) = 4

\* C29 (Rainbow soundness): in the Rainbow variant every color clue touches
\* every rainbow card of the target's hand, a color clue that touches a slot
\* does not remove "m" from the slot's candidate colors, and legal clues keep
\* the knowledge sound: the dealt board is sound, and a clue that returns on a
\* sound board leaves every card's true color and number among its candidates.
C29_RainbowSound ==
    /\ []((board.variant = "Rainbow" /\ Constructed) => Sound(board))
    /\ [][(Called("Clue") /\ Returned /\ board.variant = "Rainbow") =>
              /\ \A k \in 1 .. Len(board.hands[ClueTarget]) :
                     LET card == board.hands[ClueTarget][k]
                         touched == clue_touched("Rainbow", card, lastTurn')
                     IN  (lastTurn'.color # NoColor) =>
                             /\ card.color = "m" => touched
                             /\ (touched /\ "m" \in board.card_info[ClueTarget][k].color) =>
                                    "m" \in board'.card_info[ClueTarget][k].color
              /\ Sound(board) => Sound(board')]_vars

\* C30 (Duck variant): a clue touches exactly the cards it touches under
\* Standard semantics, a touched slot gets clued = true (and an untouched slot
\* keeps its flag), and in every reachable state of a Duck game every knowledge
\* slot holds the full candidate colors and numbers.
C30_Duck ==
    /\ [](board.variant = "Duck" =>
             \A p \in Players(board) : \A k \in 1 .. Len(board.card_info[p]) :
                 /\ board.card_info[p][k].color = SetOf(CARD_COLORS("Duck"))
                 /\ board.card_info[p][k].number = SetOf(CARD_NUMBERS))
    /\ [][(Called("Clue") /\ Returned /\ board.variant = "Duck") =>
              \A k \in 1 .. Len(board.hands[ClueTarget]) :
                  LET card == board.hands[ClueTarget][k]
                      standard == VariantDefault_clue_touched(card, lastTurn')
                  IN  /\ clue_touched("Duck", card, lastTurn') = standard
                      /\ board'.card_info[ClueTarget][k].clued =
                             (standard \/ board.card_info[ClueTarget][k].clued)]_vars

\* A clue has returned in a Duck game: it touched a slot, missed a slot that an
\* earlier clue had touched, and missed a slot that no clue has touched.
C30_Witness ==
    /\ board.variant = "Duck"
    /\ lastTurn.kind = "Clue" /\ raised = "None"
    /\ LET p == lastTurn.target
       IN  \E k, j, i \in 1 .. Len(board.hands[p]) :
               /\ VariantDefault_clue_touched(board.hands[p][k], lastTurn)
               /\ board.card_info[p][k].clued
               /\ ~VariantDefault_clue_touched(board.hands[p][j], lastTurn)
               /\ board.card_info[p][j].clued
               /\ ~board.card_info[p][i].clued
               /\ board.card_info[p][i] = FullInfo("Duck")

\* The place (from 1) that the card at place k of a hand has after slot i was
\* removed and d cards were inserted in front.
ShiftedPlace(k, i, d) == (IF k < i + 1 THEN k ELSE k - 1) + d

\* C31 (lockstep shifting): after a successful Play or Discard of a slot i of
\* the acting player's hand, every card that remains in the hand is paired with
\* the knowledge entry it had before, in the same relative order, and when the
\* deck is not empty the drawn card is at position 0 together with a fresh
\* knowledge entry (full candidate sets, clued = false) at position 0.  The
\* call is made on the board of this state (ReadOnlyPlay).
C31_Lockstep ==
    [][((Called("Play") \/ Called("Discard")) /\ Returned /\ ReadOnlyPlay
            /\ lastTurn'.index \in 0 .. current_hand_size(board) - 1) =>
           LET p == current_player(board)
               i == lastTurn'.index
               d == IF board.deck # <<>> THEN 1 ELSE 0
           IN  /\ Len(board'.hands[p]) = Len(board.hands[p]) - 1 + d
               /\ Len(board'.card_info[p]) = Len(board.card_info[p]) - 1 + d
               /\ \A k \in (1 .. Len(board.hands[p])) \ {i + 1} :
                      /\ board'.hands[p][ShiftedPlace(k, i, d)] = board.hands[p][k]
                      /\ board'.card_info[p][ShiftedPlace(k, i, d)] = board.card_info[p][k]
               /\ d = 1 =>
                      /\ board'.hands[p][1] = board.deck[Len(board.deck)]
                      /\ board'.card_info[p][1] = FullInfo(board.variant)
                      /\ board'.deck = SubSeq(board.deck, 1, Len(board.deck) - 1)]_vars

\* A Play of a slot in the middle of a hand has returned and a card was drawn:
\* the player holds clued knowledge on both sides of the slot played, behind
\* the fresh entry of the card drawn.
C31_Witness ==
    /\ lastTurn.kind = "Play" /\ raised = "None"
    /\ lastTurn.index = 2
    /\ LET p == (current_player(board) + board.num_players - 1) % board.num_players
       IN  /\ Len(board.card_info[p]) = Len(board.hands[p])
           /\ Len(board.hands[p]) >= 4
           /\ board.card_info[p][1] = FullInfo(board.variant)
           /\ \E k \in 2 .. 3 : board.card_info[p][k].clued
           /\ \E k \in 4 .. Len(board.hands[p]) :
                  /\ board.card_info[p][k].clued
                  /\ ~board.card_info[p][k - 1].clued

\* The seat after, and the seat before, the seat p at a table of n.
NextSeat(p, n) == IF p = n - 1 THEN 0 ELSE p + 1
PrevSeat(p, n) == IF p = 0 THEN n - 1 ELSE p - 1

\* The seat reached from the seat p by `offset` steps around a table of n,
\* forward for a positive offset and backward for a negative one.
RECURSIVE SeatAfter(_, _, _)
SeatAfter(p, offset, n) ==
    IF offset = 0 THEN p
    ELSE IF offset > 0 THEN NextSeat(SeatAfter(p, offset - 1, n), n)
    ELSE PrevSeat(SeatAfter(p, offset + 1, n), n)

\* C32 (seat arithmetic): in every state and for every integer offset, negative
\* included, relative_player(offset) is the player `offset` seats after the
\* current player modulo num_players, and other_players is exactly
\* relative_player(1), ..., relative_player(num_players - 1) in that order and
\* does not hold the current player.
C32_SeatArithmetic ==
    /\ \A offset \in (0 - MaxOffset) .. MaxOffset :
           relative_player(board, offset) =
               SeatAfter(current_player(board), offset, board.num_players)
    /\ Len(other_players(board)) = board.num_players - 1
    /\ \A k \in 1 .. board.num_players - 1 :
           other_players(board)[k] = relative_player(board, k)
    /\ current_player(board) \notin SetOf(other_players(board))

\* The third of three players is to act: the others are players 0 and 1 in
\* that order, and a negative offset wraps around the table.
C32_Witness ==
    /\ board.num_players = 3
    /\ current_player(board) = 2
    /\ board.turn_index > 0
    /\ other_players(board) = <<0, 1>>
    /\ relative_player(board, -1) = 1
    /\ relative_player(board, -4) = 1
    /\ relative_player(board, 2) = 1

\* C33 (game-over stability): once game_over is true it stays true after any
\* further evaluate call (evaluate does not refuse a call on a finished game).
C33_GameOverStable ==
    [][(game_over(board) /\ ~Called("Reset")) => game_over(board')]_vars

\* C34 (hand-size invariant): in every reachable state where turns_left is unset
\* every hand holds exactly the initial hand size; a hand never exceeds the
\* initial size; and once turns_left is set no hand grows.
C34_HandSize ==
    /\ [](\A p \in Players(board) :
              /\ IsNone(board.turns_left) =>
                     Len(board.hands[p]) = initial_cards_per_player(board)
              /\ Len(board.hands[p]) <= initial_cards_per_player(board))
    /\ [][(~IsNone(board.turns_left) /\ ~Called("Reset")) =>
              \A p \in Players(board) :
                  Len(board'.hands[p]) <= Len(board.hands[p])]_vars

\* The cards a player's hand is short of the hand dealt.
CardsLost(b, p) == initial_cards_per_player(b) - Len(b.hands[p])

\* A player must act: the driver loop is about to ask for a turn.
MustAct == ~game_over(board) /\ raised = "None"

\* C35 (no empty hand on turn): under the driver loop every player loses at
\* most 2 cards (none while the deck can still replace the card of a turn that
\* returned), so whenever a player must act their hand is not empty and Play(0)
\* and Discard(handSize - 1) are in range.
C35_NoEmptyHand ==
    /\ \A p \in Players(board) : CardsLost(board, p) <= 2
    /\ MustAct =>
           /\ \A p \in Players(board) : board.deck # <<>> => CardsLost(board, p) = 0
           /\ current_hand_size(board) > 0
           /\ 0 \in 0 .. current_hand_size(board) - 1
           /\ current_hand_size(board) - 1 \in 0 .. current_hand_size(board) - 1
           /\ InRange(_current_hand(board), 0)
           /\ InRange(current_info(board), current_hand_size(board) - 1)

\* The player whose turn found the deck empty has taken the last turn of the
\* game too, and is two cards short; the countdown has ended the game.
C35_Witness ==
    /\ raised = "None"
    /\ board.turns_left = Some(0)
    /\ board.deck = <<>>
    /\ board.strikes < 3 /\ ~AllPlayed(board)
    /\ \E p \in Players(board) : CardsLost(board, p) = 2

\* The player who took the turn at place j (from 1) of the history, counted
\* back from the player whose turn it is now.
ActorOf(b, j) == SeatAfter(current_player(b), j - 1 - Len(b.turns), b.num_players)

\* C36 (turn rotation): each successful evaluate moves the current player to
\* the next seat, (previous + 1) mod num_players, and a failing evaluate leaves
\* the current player unchanged, so that any num_players consecutive successful
\* turns are taken by num_players distinct players (in every state, the last
\* num_players turns of the history are).
C36_TurnRotation ==
    /\ [][Succeeded =>
              /\ current_player(board') = (current_player(board) + 1) % board.num_players
              /\ current_player(board') = NextSeat(current_player(board), board.num_players)
              /\ ActorOf(board', Len(board'.turns)) = current_player(board)]_vars
    /\ [][Failed => current_player(board') = current_player(board)]_vars
    /\ [](Len(board.turns) >= board.num_players =>
              {ActorOf(board, k) :
                   k \in Len(board.turns) - board.num_players + 1 .. Len(board.turns)}
                  = Players(board))

\* In a game of three, a call has failed after four turns: it is still the
\* turn of player 1, and the last three turns were taken by players 1, 2 and 0.
C36_Witness ==
    /\ board.num_players = 3
    /\ Len(board.turns) = 4 /\ board.turn_index = 4
    /\ raised # "None" /\ lastTurn # NoTurn
    /\ current_player(board) = 1
    /\ ActorOf(board, 2) = 1 /\ ActorOf(board, 3) = 2 /\ ActorOf(board, 4) = 0

====
